---- MODULE Spec2Model ----
(***************************************************************************)
(* Model of src/main.py: the spreadsheet-to-signed-PDF batch job.          *)
(*                                                                         *)
(*   Spec         the run of main(): get input, fetch blobs, write the     *)
(*                temporary files, convert, overlay, store, push status.   *)
(*   SpecOverlay  add_signature_and_date applied to bounded documents.     *)
(*   SpecLocate   find_text_coordinates applied to bounded page texts.     *)
(*                                                                         *)
(* Text is a sequence of one-character strings, so that lower(), split()   *)
(* and the date regular expression are computed character by character.    *)
(***************************************************************************)
EXTENDS Integers, Sequences, FiniteSets, TLC

VARIABLES
    pc,            \* position of the run / of the function under check
    input_data,    \* Actor.get_input(): record of the supplied options
    store,         \* key-value store: key -> blob
    fetched,       \* <<xlsx_data, signature_data, blank_image_data>> once read
    temp_dir,      \* "none" | "exists" | "removed"
    temp_files,    \* names of the files inside temp_dir
    soffice_runs,  \* number of subprocess.run(soffice ...) calls
    conversion,    \* <<result.returncode, os.path.exists(pdf_out)>> of the last run
    stages,        \* the steps of main() started so far, in order
    reader,        \* pages of the converted PDF (PdfReader(input_pdf).pages)
    written,       \* pages of output.pdf (writer.write), <<>> before
    kv_writes,     \* sequence of kv_store.set_value calls of this run
    dataset,       \* sequence of Actor.push_data records
    error,         \* exception that ended the run, "" if none
    today_date,    \* module-level today_date string
    page,          \* SpecLocate: the page handed to find_text_coordinates
    marker,        \* SpecLocate: the marker handed to find_text_coordinates
    found          \* SpecLocate: the value returned

vars == <<pc, input_data, store, fetched, temp_dir, temp_files, soffice_runs,
          conversion, stages, reader, written, kv_writes, dataset, error, today_date,
          page, marker, found>>

----------------------------------------------------------------------------
(* Bounds *)

MaxLines == 3      \* lines of text on an enumerated page
MaxPages == 21     \* pages of an enumerated source document

----------------------------------------------------------------------------
(* Module-level configuration, src/main.py:19-31 *)

SIGNATURE_MARKER == <<"S", "i", "g", "n", "a", "t", "u", "r", "e", ":">>
DATE_MARKER == <<"D", "a", "t", "e", ":">>
default_signature_coords == <<250, 293>>
default_date_coords == <<260, 259>>
default_signature_p2 == <<230, 162>>
font_size == 9
signature_width == 120
signature_height == 30
blank_image_width == 80
blank_image_height == 10
signature_width2 == 160
signature_height2 == 20
LetterHeight == 792      \* reportlab letter[1]
LinePitch == 20
MarkerX == 100
OffsetX == 80
OffsetY == 10
PageCap == 19

----------------------------------------------------------------------------
(* Characters and strings *)

UpperCase == <<"A", "B", "C", "D", "E", "F", "G", "H", "I", "J", "K", "L", "M",
               "N", "O", "P", "Q", "R", "S", "T", "U", "V", "W", "X", "Y", "Z">>
LowerCase == <<"a", "b", "c", "d", "e", "f", "g", "h", "i", "j", "k", "l", "m",
               "n", "o", "p", "q", "r", "s", "t", "u", "v", "w", "x", "y", "z">>
Digits == {"0", "1", "2", "3", "4", "5", "6", "7", "8", "9"}
NL == "\n"

Range(s) == {s[i] : i \in 1..Len(s)}

UpperSet == Range(UpperCase)
ToLower == [c \in UpperSet |-> LowerCase[CHOOSE i \in 1..Len(UpperCase) : UpperCase[i] = c]]

\* str.lower() on one character
LowerChar(c) == IF c \in UpperSet THEN ToLower[c] ELSE c

\* str.lower()
Lower(s) == [i \in 1..Len(s) |-> LowerChar(s[i])]

\* needle in hay
Contains(hay, needle) ==
    \E p \in 1..(Len(hay) - Len(needle) + 1) :
        SubSeq(hay, p, p + Len(needle) - 1) = needle

\* str.split('\n')
RECURSIVE Split(_)
Split(s) ==
    IF \A i \in 1..Len(s) : s[i] /= NL
    THEN <<s>>
    ELSE LET k == CHOOSE i \in 1..Len(s) :
                      s[i] = NL /\ \A j \in 1..(i - 1) : s[j] /= NL
         IN  <<SubSeq(s, 1, k - 1)>> \o Split(SubSeq(s, k + 1, Len(s)))

\* regular-expression classes \d and \w
IsDigit(c) == c \in Digits
WordChars == Digits \cup Range(UpperCase) \cup Range(LowerCase) \cup {"_"}
IsWord(c) == c \in WordChars

\* \b between s[p-1] and s[p]
WordBoundary(s, p) ==
    LET before == p - 1 >= 1 /\ p - 1 <= Len(s) /\ IsWord(s[p - 1])
        after  == p >= 1 /\ p <= Len(s) /\ IsWord(s[p])
    IN  before /= after

AllDigits(s, from, n) ==
    /\ from + n - 1 <= Len(s)
    /\ \A j \in from..(from + n - 1) : IsDigit(s[j])

CharAt(s, p, c) == p <= Len(s) /\ s[p] = c

\* DATE_PATTERN \b(\d{1,2}/\d{1,2}/\d{4})\b matched starting at position p
DateMatchAt(s, p) ==
    \E a \in 1..2, b \in 1..2 :
        /\ WordBoundary(s, p)
        /\ AllDigits(s, p, a)
        /\ CharAt(s, p + a, "/")
        /\ AllDigits(s, p + a + 1, b)
        /\ CharAt(s, p + a + 1 + b, "/")
        /\ AllDigits(s, p + a + b + 2, 4)
        /\ WordBoundary(s, p + a + b + 6)

\* bool(re.search(DATE_PATTERN, s))
DateSearch(s) == \E p \in 1..Len(s) : DateMatchAt(s, p)

----------------------------------------------------------------------------
(* find_text_coordinates, src/main.py:101-121 *)

None == <<>>

\* y = letter[1] - (i + 1) * 20 for the 0-based line index i
MarkerY(i) == LetterHeight - (i + 1) * LinePitch

\* lines 113-117: has_date for the matching line k (1-based position in lines)
HasDateCurrentLineOnly(lines, k, mk) ==
    IF mk = DATE_MARKER THEN DateSearch(lines[k]) ELSE FALSE
HasDate(lines, k, mk) ==
    IF mk = DATE_MARKER
    THEN LET current_line == lines[k]
             next_line == IF k + 1 <= Len(lines) THEN lines[k + 1] ELSE <<>>
         IN  DateSearch(current_line) \/ DateSearch(next_line)
    ELSE FALSE

\* line 109
LineMatchesCaseSensitive(line, mk) == Contains(line, mk)
LineMatches(line, mk) == Contains(Lower(line), Lower(mk))

\* the for loop of lines 108-119, from the line at position k on
RECURSIVE ScanLines(_, _, _)
ScanLines(lines, k, mk) ==
    IF k > Len(lines) THEN <<None, FALSE>>
    ELSE IF LineMatches(lines[k], mk)
         THEN <<(<<MarkerX, MarkerY(k - 1)>>), HasDate(lines, k, mk)>>
         ELSE ScanLines(lines, k + 1, mk)

\* A page is [src, lines, raises, merged]: its 0-based index in the source
\* document, its text lines, whether extract_text() throws, and the overlays
\* merged onto it so far.

RECURSIVE Join(_)
Join(ls) ==
    IF Len(ls) = 0 THEN <<>>
    ELSE IF Len(ls) = 1 THEN ls[1]
    ELSE ls[1] \o <<NL>> \o Join(Tail(ls))

\* page.extract_text(): the text lines joined by newlines
extract_text(pg) == Join(pg.lines)

find_text_coordinates(pg, mk) ==
    IF pg.raises THEN <<None, FALSE>>
    ELSE LET text_data == extract_text(pg)
         IN  IF text_data = <<>> THEN <<None, FALSE>>
             ELSE ScanLines(Split(text_data), 1, mk)

----------------------------------------------------------------------------
(* add_signature_and_date, src/main.py:123-176 *)

Min(a, b) == IF a < b THEN a ELSE b

\* line 128
end_ixNoCap(total) == total
end_ix(total) == Min(PageCap, total)

\* coords or default
OrDefault(coords, default) == IF coords = None THEN default ELSE coords

\* (c[0] + 80, c[1] - 10)
AdjustNoDrop(c) == <<c[1] + OffsetX, c[2]>>
Adjust(c) == <<c[1] + OffsetX, c[2] - OffsetY>>

drawImage(img, x, y, w, h) ==
    [op |-> "drawImage", what |-> img, x |-> x, y |-> y, width |-> w, height |-> h]
drawString(x, y, text) ==
    [op |-> "drawString", what |-> text, x |-> x, y |-> y, width |-> 0, height |-> font_size]

\* pages[a:b] of a Python list (0-based, b exclusive)
Slice(pages, a, b) == SubSeq(pages, a + 1, Min(b, Len(pages)))

\* page.merge_page(overlay)
merge_page(pg, overlay) == [pg EXCEPT !.merged = Append(@, overlay)]

\* lines 133-148: the canvas c0 drawn for the first page
Overlay0(page0, signature_img, blank_img, date_text) ==
    LET sig_found == find_text_coordinates(page0, SIGNATURE_MARKER)
        date_found == find_text_coordinates(page0, DATE_MARKER)
        has_date == date_found[2]
        sig_coords0 == Adjust(OrDefault(sig_found[1], default_signature_coords))
        date_coords == Adjust(OrDefault(date_found[1], default_date_coords))
        date_y == date_coords[2] + blank_image_height \div 2
    IN  <<drawImage(signature_img, sig_coords0[1], sig_coords0[2],
                    signature_width, signature_height)>>
        \o (IF ~has_date
            THEN <<drawImage(blank_img, date_coords[1], date_coords[2],
                             blank_image_width, blank_image_height),
                   drawString(date_coords[1], date_y, date_text)>>
            ELSE <<>>)

\* lines 157-163: the canvas c1 drawn for the second page
Overlay1(page1, signature_img) ==
    LET sig_found == find_text_coordinates(page1, SIGNATURE_MARKER)
        sig_coords1 == Adjust(OrDefault(sig_found[1], default_signature_p2))
    IN  <<drawImage(signature_img, sig_coords1[1], sig_coords1[2],
                    signature_width2, signature_height2)>>

\* lines 154-172: the pages added to the writer after the first one
RestPagesFromSecond(pages, total, signature_img) ==
    IF total > 1
    THEN <<merge_page(pages[2], Overlay1(pages[2], signature_img))>>
         \o Slice(pages, 1, end_ix(total))
    ELSE Slice(pages, 1, end_ix(total))
RestPages(pages, total, signature_img) ==
    IF total > 1
    THEN <<merge_page(pages[2], Overlay1(pages[2], signature_img))>>
         \o Slice(pages, 2, end_ix(total))
    ELSE Slice(pages, 1, end_ix(total))

\* The whole function: [raised, pages]. reader.pages[0] of an empty document
\* raises IndexError before anything is written.
add_signature_and_date(pages, signature_img, blank_img, date_text) ==
    LET total == Len(pages)
    IN  IF total = 0
        THEN [raised |-> TRUE, pages |-> <<>>]
        ELSE [raised |-> FALSE,
              pages |-> <<merge_page(pages[1],
                                     Overlay0(pages[1], signature_img, blank_img, date_text))>>
                        \o RestPages(pages, total, signature_img)]

----------------------------------------------------------------------------
(* Enumerated inputs *)

LineSig == <<"S", "i", "g", "n", "a", "t", "u", "r", "e", ":">>
LineSigUpper == <<"B", "Y", " ", "S", "I", "G", "N", "A", "T", "U", "R", "E", ":", " ", "X">>
LineDate == <<"D", "a", "t", "e", ":">>
LineDateVal == <<"d", "a", "t", "e", ":", " ", "1", "/", "2", "/", "2", "0", "2", "4">>
LineDateOnly == <<"1", "2", "/", "3", "1", "/", "2", "0", "2", "4">>
LineDateLong == <<"D", "A", "T", "E", ":", " ", "1", "/", "2", "/", "2", "0", "2", "4", "5">>
LineGlued == <<"N", "o", "1", "/", "2", "/", "2", "0", "2", "4">>
LineOther == <<"T", "o", "t", "a", "l", " ", "1", "0", "0">>
LineEmpty == <<>>

Lines == {LineSig, LineSigUpper, LineDate, LineDateVal, LineDateOnly,
          LineDateLong, LineGlued, LineOther, LineEmpty}

SeqsUpTo(S, n) == UNION {[1..k -> S] : k \in 0..n}

\* what a page can hold: text lines, or a text layer whose extraction throws
PageContents ==
    {[lines |-> ls, raises |-> FALSE] : ls \in SeqsUpTo(Lines, MaxLines)}
    \cup {[lines |-> <<LineSig, LineDate>>, raises |-> TRUE]}

FewContents ==
    {[lines |-> <<>>, raises |-> FALSE],
     [lines |-> <<LineOther, LineSigUpper, LineDate, LineDateOnly>>, raises |-> FALSE],
     [lines |-> <<LineSig, LineDate>>, raises |-> TRUE]}

PlainContent == [lines |-> <<LineOther>>, raises |-> FALSE]

MkPage(k, c) == [src |-> k, lines |-> c.lines, raises |-> c.raises, merged |-> <<>>]

\* a source document of n pages; only the first two pages' text is ever read
MkDoc(n, c0, c1) ==
    [k \in 1..n |-> IF k = 1 THEN MkPage(0, c0)
                    ELSE IF k = 2 THEN MkPage(1, c1)
                    ELSE MkPage(k - 1, PlainContent)]

\* documents of every length with a few texts, and short documents with every text
FewDocs == {MkDoc(n, c0, c1) : n \in 0..MaxPages, c0 \in FewContents, c1 \in FewContents}
ConvertedDocs == {MkDoc(n, c0, PlainContent) : n \in 0..MaxPages, c0 \in FewContents}
RichDocs ==
    {MkDoc(n, c0, PlainContent) : n \in 1..2, c0 \in PageContents}
    \cup {MkDoc(2, PlainContent, c1) : c1 \in PageContents}

DateTexts == {"11/02/2026", "01/05/2025"}

Absent == "<absent>"
StoreKeys == {"book.xlsx", "b2", "signature.png", "line.png", "sig2.png"}
Blobs == {"none", "empty", "data"}

Inputs ==
    [xlsx_key : {Absent, "", "book.xlsx", "b2"},
     signature_key : {Absent, "sig2.png"},
     blank_image_key : {Absent, "line.png"}]

----------------------------------------------------------------------------
(* main, src/main.py:33-81 *)

\* dict.get(key, default)
Get(d, k, default) == IF d[k] = Absent THEN default ELSE d[k]

\* kv_store.get_value(key)
get_value(st, k) == IF k \in DOMAIN st THEN st[k] ELSE "none"

\* Python truthiness of a key / a blob
Truthy(v) == v \notin {Absent, "", "none", "empty"}

\* line 41
KeyMissing(xlsx_key) == ~Truthy(xlsx_key)

\* line 50
BlobsMissingXlsxOnly(xlsx_data, signature_data, blank_image_data) ==
    ~Truthy(xlsx_data)
BlobsMissing(xlsx_data, signature_data, blank_image_data) ==
    ~Truthy(xlsx_data) \/ ~Truthy(signature_data) \/ ~Truthy(blank_image_data)

\* line 96
ConversionSucceededExitCodeOnly(returncode, pdf_exists) == returncode = 0
ConversionSucceeded(returncode, pdf_exists) == returncode = 0 /\ pdf_exists

\* line 75
output_keyNoSuffix(xlsx_key) == "signed_" \o xlsx_key
output_key(xlsx_key) == "signed_" \o xlsx_key \o ".pdf"

\* line 54: leaving the TemporaryDirectory block, normally or by an exception
TempDirKept(d) == d
TempDirAfterExit(d) == "removed"

\* line 99: a failed conversion raises; nothing runs the converter again
AfterConversionFailureRetry(runs) == IF runs < 2 THEN "convert" ELSE "failed"
AfterConversionFailure(runs) == "failed"

Idle == /\ page = MkPage(0, [lines |-> <<>>, raises |-> FALSE])
        /\ marker = SIGNATURE_MARKER
        /\ found = <<None, FALSE>>

Init ==
    /\ pc = "get_input"
    /\ input_data \in Inputs
    /\ store \in [StoreKeys -> Blobs]
    /\ fetched = <<>>
    /\ temp_dir = "none"
    /\ temp_files = {}
    /\ soffice_runs = 0
    /\ conversion = <<>>
    /\ stages = <<>>
    /\ reader = <<>>
    /\ written = <<>>
    /\ kv_writes = <<>>
    /\ dataset = <<>>
    /\ error = ""
    /\ today_date \in DateTexts
    /\ Idle

\* an exception leaves main; inside the with block the directory is removed
Raise(e) ==
    /\ pc' = "failed"
    /\ error' = e
    /\ temp_dir' = IF temp_dir = "exists" THEN TempDirAfterExit(temp_dir) ELSE temp_dir
    /\ temp_files' = IF temp_dir' = "exists" THEN temp_files ELSE {}

\* lines 36-42
GetInput ==
    /\ pc = "get_input"
    /\ stages' = Append(stages, "get_input")
    /\ IF KeyMissing(input_data.xlsx_key)
       THEN Raise("ValueError: No XLSX file key provided in input")
       ELSE /\ pc' = "fetch"
            /\ UNCHANGED <<error, temp_dir, temp_files>>
    /\ UNCHANGED <<input_data, store, fetched, soffice_runs, conversion, reader, written,
                   kv_writes, dataset, today_date, page, marker, found>>

\* lines 45-51
FetchInputs ==
    /\ pc = "fetch"
    /\ stages' = Append(stages, "fetch")
    /\ LET xlsx_data == get_value(store, input_data.xlsx_key)
           signature_data == get_value(store, Get(input_data, "signature_key", "signature.png"))
           blank_image_data == get_value(store, Get(input_data, "blank_image_key", "line.png"))
       IN  /\ fetched' = <<xlsx_data, signature_data, blank_image_data>>
           /\ IF BlobsMissing(xlsx_data, signature_data, blank_image_data)
              THEN Raise("FileNotFoundError: One or more input files not found in key-value store")
              ELSE /\ pc' = "write_temp"
                   /\ UNCHANGED <<error, temp_dir, temp_files>>
    /\ UNCHANGED <<input_data, store, soffice_runs, conversion, reader, written,
                   kv_writes, dataset, today_date, page, marker, found>>

\* lines 54-65
WriteTemp ==
    /\ pc = "write_temp"
    /\ stages' = Append(stages, "write_temp")
    /\ temp_dir' = "exists"
    /\ temp_files' = {"input.xlsx", "signature.png", "line.png"}
    /\ pc' = "convert"
    /\ UNCHANGED <<input_data, store, fetched, soffice_runs, conversion, reader, written,
                   kv_writes, dataset, error, today_date, page, marker, found>>

\* line 68 and convert_xlsx_to_pdf, lines 83-99
Convert ==
    /\ pc = "convert"
    /\ stages' = Append(stages, "convert")
    /\ soffice_runs' = soffice_runs + 1
    /\ \E returncode \in {0, 1}, pdf_exists \in BOOLEAN :
          /\ conversion' = <<returncode, pdf_exists>>
          /\ IF ConversionSucceeded(returncode, pdf_exists)
             THEN /\ \E doc \in ConvertedDocs : reader' = doc
                  /\ temp_files' = temp_files \cup {"input.pdf"}
                  /\ pc' = "overlay"
                  /\ UNCHANGED <<error, temp_dir>>
             ELSE /\ reader' = reader
                  /\ pc' = AfterConversionFailure(soffice_runs')
                  /\ error' = "FileNotFoundError: Conversion failed"
                  /\ temp_dir' = IF pc' = "failed" THEN TempDirAfterExit(temp_dir)
                                 ELSE temp_dir
                  /\ temp_files' = IF temp_dir' = "exists" THEN temp_files ELSE {}
    /\ UNCHANGED <<input_data, store, fetched, written,
                   kv_writes, dataset, today_date, page, marker, found>>

\* line 71
Overlay ==
    /\ pc = "overlay"
    /\ stages' = Append(stages, "overlay")
    /\ LET r == add_signature_and_date(reader, "signature.png", "line.png", today_date)
       IN  IF r.raised
           THEN /\ Raise("IndexError")
                /\ written' = written
           ELSE /\ written' = r.pages
                /\ temp_files' = temp_files \cup {"output.pdf"}
                /\ pc' = "store"
                /\ UNCHANGED <<error, temp_dir>>
    /\ UNCHANGED <<input_data, store, fetched, soffice_runs, conversion, reader,
                   kv_writes, dataset, today_date, page, marker, found>>

\* lines 74-76
StoreOutput ==
    /\ pc = "store"
    /\ stages' = Append(stages, "store")
    /\ \/ LET key == output_key(input_data.xlsx_key)
          IN  /\ kv_writes' = Append(kv_writes,
                      [key |-> key, value |-> written, content_type |-> "application/pdf"])
              /\ store' = [k \in DOMAIN store \cup {key} |->
                              IF k = key THEN "data" ELSE store[k]]
              /\ pc' = "push"
              /\ UNCHANGED <<error, temp_dir, temp_files>>
       \/ /\ Raise("StoreError")
          /\ UNCHANGED <<kv_writes, store>>
    /\ UNCHANGED <<input_data, fetched, soffice_runs, conversion, reader, written,
                   dataset, today_date, page, marker, found>>

\* lines 79-81 and the end of the with block
PushData ==
    /\ pc = "push"
    /\ stages' = Append(stages, "push")
    /\ \/ /\ dataset' = Append(dataset,
                  [status |-> "success", output_file |-> output_key(input_data.xlsx_key)])
          /\ pc' = "done"
          /\ temp_dir' = TempDirAfterExit(temp_dir)
          /\ temp_files' = IF temp_dir' = "exists" THEN temp_files ELSE {}
          /\ error' = error
       \/ /\ Raise("DatasetError")
          /\ dataset' = dataset
    /\ UNCHANGED <<input_data, store, fetched, soffice_runs, conversion, reader, written,
                   kv_writes, today_date, page, marker, found>>

Next == GetInput \/ FetchInputs \/ WriteTemp \/ Convert \/ Overlay \/ StoreOutput \/ PushData

Spec == Init /\ [][Next]_vars

----------------------------------------------------------------------------
(* add_signature_and_date on its own *)

InitOverlay ==
    /\ pc = "overlay"
    /\ input_data = [xlsx_key |-> "book.xlsx", signature_key |-> Absent,
                     blank_image_key |-> Absent]
    /\ store = [k \in StoreKeys |-> "data"]
    /\ fetched = <<"data", "data", "data">>
    /\ temp_dir = "exists"
    /\ temp_files = {"input.xlsx", "signature.png", "line.png", "input.pdf"}
    /\ soffice_runs = 1
    /\ conversion = <<0, TRUE>>
    /\ stages = <<"get_input", "fetch", "write_temp", "convert">>
    /\ written = <<>>
    /\ kv_writes = <<>>
    /\ dataset = <<>>
    /\ error = ""
    /\ \/ reader \in FewDocs /\ today_date \in DateTexts
       \/ reader \in RichDocs /\ today_date = "11/02/2026"
    /\ Idle

NextOverlay == Overlay

SpecOverlay == InitOverlay /\ [][NextOverlay]_vars

----------------------------------------------------------------------------
(* find_text_coordinates on its own *)

InitLocate ==
    /\ pc = "locate"
    /\ input_data = [xlsx_key |-> Absent, signature_key |-> Absent,
                     blank_image_key |-> Absent]
    /\ store = [k \in StoreKeys |-> "none"]
    /\ fetched = <<>>
    /\ temp_dir = "none"
    /\ temp_files = {}
    /\ soffice_runs = 0
    /\ conversion = <<>>
    /\ stages = <<>>
    /\ reader = <<>>
    /\ written = <<>>
    /\ kv_writes = <<>>
    /\ dataset = <<>>
    /\ error = ""
    /\ today_date = "11/02/2026"
    /\ \E c \in PageContents : page = MkPage(0, c)
    /\ marker \in {SIGNATURE_MARKER, DATE_MARKER}
    /\ found = <<None, FALSE>>

Locate ==
    /\ pc = "locate"
    /\ found' = find_text_coordinates(page, marker)
    /\ pc' = "located"
    /\ UNCHANGED <<input_data, store, fetched, temp_dir, temp_files, soffice_runs,
                   conversion, stages, reader, written, kv_writes, dataset, error,
                   today_date, page, marker>>

NextLocate == Locate

SpecLocate == InitLocate /\ [][NextLocate]_vars

----------------------------------------------------------------------------
(* The locate contract of the specification, stated over the page's lines   *)

\* line contains mk, ignoring case
HasMarker(line, mk) ==
    \E p \in 0..(Len(line) - Len(mk)) :
        \A j \in 1..Len(mk) : LowerChar(line[p + j]) = LowerChar(mk[j])

\* t is one or two digits, a slash, one or two digits, a slash, four digits
IsDateToken(t) ==
    \E a \in 1..2, b \in 1..2 :
        /\ Len(t) = a + b + 6
        /\ \A j \in 1..Len(t) :
              IF j = a + 1 \/ j = a + b + 2 THEN t[j] = "/" ELSE t[j] \in Digits

\* line holds a date token that no letter, digit or underscore touches
DateShaped(line) ==
    \E p \in 1..Len(line), q \in 1..Len(line) :
        /\ p <= q
        /\ IsDateToken(SubSeq(line, p, q))
        /\ p = 1 \/ line[p - 1] \notin WordChars
        /\ q = Len(line) \/ line[q + 1] \notin WordChars

MarkerLines(pg, mk) ==
    IF pg.raises THEN {} ELSE {i \in 1..Len(pg.lines) : HasMarker(pg.lines[i], mk)}

\* 1-based position of the first marker line (only used when there is one)
FirstMarkerLine(pg, mk) ==
    CHOOSE i \in MarkerLines(pg, mk) : \A j \in MarkerLines(pg, mk) : i <= j

DateAlreadyPresent(pg) ==
    /\ MarkerLines(pg, DATE_MARKER) /= {}
    /\ LET i == FirstMarkerLine(pg, DATE_MARKER)
       IN  \/ DateShaped(pg.lines[i])
           \/ i + 1 <= Len(pg.lines) /\ DateShaped(pg.lines[i + 1])

locate(pg, mk) ==
    IF MarkerLines(pg, mk) = {} THEN <<None, FALSE>>
    ELSE <<(<<100, 792 - FirstMarkerLine(pg, mk) * 20>>),
           mk = DATE_MARKER /\ DateAlreadyPresent(pg)>>

\* where the date is stamped on the first page: the located coordinate, or
\* the default (260, 259), moved by (+80, -10)
ExpectedDateXY(pg) ==
    IF MarkerLines(pg, DATE_MARKER) = {} THEN <<340, 249>>
    ELSE <<180, 792 - FirstMarkerLine(pg, DATE_MARKER) * 20 - 10>>

OverlayDone == pc \in {"store", "push", "done"} \/ (pc = "failed" /\ written /= <<>>)

\* the overlay merged onto output page k (1-based)
OverlayOf(k) == written[k].merged[1]

----------------------------------------------------------------------------
(* Claims *)

\* C1: the number of pages add_signature_and_date writes equals
\* min(number of source pages, 19).
C1_OutputPageCount ==
    (\E i \in 1..Len(stages) : stages[i] = "overlay") =>
        Len(written) = (IF Len(reader) <= 19 THEN Len(reader) ELSE 19)

C1_Witness == pc = "store" /\ Len(reader) = 20 /\ Len(written) = 19

\* C2: output page k is source page k, in order; exactly the first page and
\* the second page (when there is one) carry one overlay each, the second a
\* single signature image; every later page is copied with no overlay; a
\* one-page source gives a one-page output.
C2_PagesInOrder ==
    OverlayDone =>
        /\ \A k \in 1..Len(written) :
              /\ k <= Len(reader)
              /\ written[k].src = k - 1
              /\ written[k].src = reader[k].src
              /\ written[k].lines = reader[k].lines
              /\ Len(written[k].merged) = (IF k <= 2 THEN 1 ELSE 0)
        /\ Len(written) >= 2 =>
              /\ Len(OverlayOf(2)) = 1
              /\ OverlayOf(2)[1].op = "drawImage"
              /\ OverlayOf(2)[1].what = "signature.png"
        /\ Len(reader) = 1 => Len(written) = 1

C2_Witness ==
    /\ pc = "store"
    /\ Len(reader) = 5
    /\ Len(written) = 5
    /\ written[3].merged = <<>>
    /\ written[2].merged /= <<>>

\* the first page's overlay: the signature image, and the blank-line image
\* and date text exactly when no date is present
Page1Overlay(present) ==
    LET ov == OverlayOf(1)
        xy == ExpectedDateXY(reader[1])
    IN  /\ ov[1].op = "drawImage" /\ ov[1].what = "signature.png"
        /\ ov[1].width = 120 /\ ov[1].height = 30
        /\ IF present
           THEN Len(ov) = 1
           ELSE /\ Len(ov) = 3
                /\ ov[2] = [op |-> "drawImage", what |-> "line.png",
                            x |-> xy[1], y |-> xy[2], width |-> 80, height |-> 10]
                /\ ov[3].op = "drawString"
                /\ ov[3].what = today_date
                /\ ov[3].x = xy[1]
                /\ ov[3].y = xy[2] + 5

\* line holds d{1,2}/d{1,2}/dddd anywhere, whatever stands next to it
HoldsDatePattern(line) ==
    \E p \in 1..Len(line), q \in 1..Len(line) :
        p <= q /\ IsDateToken(SubSeq(line, p, q))

DatePatternOnMarkerLines(pg) ==
    /\ MarkerLines(pg, DATE_MARKER) /= {}
    /\ LET i == FirstMarkerLine(pg, DATE_MARKER)
       IN  \/ HoldsDatePattern(pg.lines[i])
           \/ i + 1 <= Len(pg.lines) /\ HoldsDatePattern(pg.lines[i + 1])

\* C3 as first stated: when text matching d{1,2}/d{1,2}/dddd stands on the
\* first date-marker line of the first page or on the line after it, the
\* overlay is the signature image alone; otherwise the blank-line image and
\* the date text are drawn too.
C3_AnyDatePattern ==
    OverlayDone => Page1Overlay(DatePatternOnMarkerLines(reader[1]))

\* C3: when a date-shaped value that is a word of its own (DATE_PATTERN, with
\* its word boundaries) stands on the first date-marker line of the first
\* page or on the line after it, the first page's overlay is the signature
\* image alone; otherwise it is the signature image, the 80x10 blank-line
\* image at the adjusted date coordinate and the date text at (x, y + 5).
C3_DateSkippedWhenPresent ==
    OverlayDone => Page1Overlay(DateAlreadyPresent(reader[1]))

\* the date stands only on the line after the marker line, and nothing is stamped
C3_Witness ==
    /\ pc = "store"
    /\ MarkerLines(reader[1], DATE_MARKER) /= {}
    /\ ~DateShaped(reader[1].lines[FirstMarkerLine(reader[1], DATE_MARKER)])
    /\ DateAlreadyPresent(reader[1])
    /\ Len(OverlayOf(1)) = 1

\* C4: a failed signature lookup (extraction throws, empty text, no matching
\* line) never aborts the overlay, and the signature is drawn at (330, 283) on
\* the first page and at (310, 152) on the second; an absent date marker puts
\* the date stamp at (340, 249).
C4_DefaultCoordinates ==
    /\ (pc = "failed" /\ error = "IndexError") => Len(reader) = 0
    /\ OverlayDone =>
        /\ MarkerLines(reader[1], SIGNATURE_MARKER) = {} =>
              (OverlayOf(1)[1].x = 330 /\ OverlayOf(1)[1].y = 283)
        /\ (Len(reader) >= 2 /\ MarkerLines(reader[2], SIGNATURE_MARKER) = {}) =>
              (OverlayOf(2)[1].x = 310 /\ OverlayOf(2)[1].y = 152
               /\ OverlayOf(2)[1].width = 160 /\ OverlayOf(2)[1].height = 20)
        /\ MarkerLines(reader[1], DATE_MARKER) = {} =>
              (Len(OverlayOf(1)) = 3
               /\ OverlayOf(1)[2].x = 340 /\ OverlayOf(1)[2].y = 249)

\* extraction throws on both pages and both signatures sit at their defaults
C4_Witness ==
    /\ pc = "store"
    /\ Len(reader) >= 2
    /\ reader[1].raises /\ reader[2].raises
    /\ OverlayOf(1)[1].x = 330 /\ OverlayOf(1)[1].y = 283
    /\ OverlayOf(2)[1].x = 310 /\ OverlayOf(2)[1].y = 152
    /\ OverlayOf(1)[2].x = 340 /\ OverlayOf(1)[2].y = 249

\* C5: when the converter exits non-zero, or exits zero without leaving the
\* PDF, the run fails with the conversion error, the overlay step never
\* starts and nothing is written to the key-value store.
C5_ConversionFailureStopsRun ==
    (conversion /= <<>> /\ (conversion[1] /= 0 \/ ~conversion[2])) =>
        /\ pc = "failed"
        /\ error = "FileNotFoundError: Conversion failed"
        /\ \A i \in 1..Len(stages) : stages[i] \notin {"overlay", "store", "push"}
        /\ written = <<>>
        /\ kv_writes = <<>>
        /\ DOMAIN store = StoreKeys
        /\ dataset = <<>>

C5_Witness ==
    /\ conversion = <<0, FALSE>>
    /\ pc = "failed"
    /\ error = "FileNotFoundError: Conversion failed"

\* C6: when the input has no (or an empty) spreadsheet key, or one of the three blobs is
\* absent from the store, the run fails with a missing-input error before
\* any processing: no temporary file, no converter run, no output blob, no
\* status record.
C6_MissingInputFailsEarly ==
    LET no_key == input_data.xlsx_key = Absent \/ input_data.xlsx_key = ""
        sig_key == IF input_data.signature_key = Absent THEN "signature.png"
                   ELSE input_data.signature_key
        blank_key == IF input_data.blank_image_key = Absent THEN "line.png"
                     ELSE input_data.blank_image_key
        blob_absent == \E k \in {input_data.xlsx_key, sig_key, blank_key} :
                          k \notin DOMAIN store \/ store[k] = "none"
    IN  (no_key \/ blob_absent) =>
            /\ pc \in {"get_input", "fetch", "failed"}
            /\ pc = "failed" =>
                 error = IF no_key
                         THEN "ValueError: No XLSX file key provided in input"
                         ELSE "FileNotFoundError: One or more input files not found in key-value store"
            /\ temp_dir = "none"
            /\ temp_files = {}
            /\ soffice_runs = 0
            /\ kv_writes = <<>>
            /\ dataset = <<>>

\* the spreadsheet is there, the blank-line image is not
C6_Witness ==
    /\ pc = "failed"
    /\ input_data.xlsx_key = "book.xlsx"
    /\ store["book.xlsx"] = "data"
    /\ fetched[2] = "data"
    /\ fetched[3] = "none"
    /\ temp_dir = "none"

\* C7: a successful run has stored exactly one output blob, under
\* signed_<inputKey>.pdf, and pushed exactly one status record; no run stores
\* or pushes more than one.
C7_OneOutputOneStatus ==
    LET expected == IF input_data.xlsx_key = "book.xlsx" THEN "signed_book.xlsx.pdf"
                    ELSE "signed_b2.pdf"
    IN  /\ Len(kv_writes) <= 1
        /\ Len(dataset) <= 1
        /\ pc = "done" =>
              /\ Len(kv_writes) = 1
              /\ Len(dataset) = 1
              /\ kv_writes[1].key = expected
              /\ kv_writes[1].value = written
              /\ expected \in DOMAIN store
              /\ dataset[1] = [status |-> "success", output_file |-> expected]

C7_Witness ==
    /\ pc = "done"
    /\ input_data.xlsx_key = "b2"
    /\ kv_writes[1].key = "signed_b2.pdf"
    /\ Len(dataset) = 1

\* C8: in every terminal state of a run no temporary directory of the run
\* is left.
C8_TempDirRemoved ==
    pc \in {"done", "failed"} => (temp_dir /= "exists" /\ temp_files = {})

\* the overlay step failed after the directory was filled
C8_Witness ==
    /\ pc = "failed"
    /\ error = "IndexError"
    /\ temp_dir = "removed"

\* C9: find_text_coordinates returns what the locate contract gives: absent
\* and false without a marker line, else (100, 792 - (i + 1) * 20) for the
\* first marker line i, with the date flag set only for the date marker and
\* only for a date on line i or i + 1.
C9_LocateContract ==
    pc = "located" =>
        /\ found = locate(page, marker)
        /\ marker = SIGNATURE_MARKER => found[2] = FALSE

\* two date-marker lines: the first one decides
C9_Witness ==
    /\ pc = "located"
    /\ marker = DATE_MARKER
    /\ Cardinality(MarkerLines(page, DATE_MARKER)) = 2
    /\ FirstMarkerLine(page, DATE_MARKER) = 2
    /\ found = <<(<<100, 752>>), TRUE>>

\* C10: the steps run in the fixed order, each only after the one before
\* succeeded: a status record implies a stored blob, a stored blob implies a
\* completed conversion and overlay, and the converter runs at most once.
StageOrder == <<"get_input", "fetch", "write_temp", "convert", "overlay", "store", "push">>

C10_StagesInOrder ==
    /\ Len(stages) <= Len(StageOrder)
    /\ \A i \in 1..Len(stages) : stages[i] = StageOrder[i]
    /\ soffice_runs <= 1
    /\ dataset /= <<>> => kv_writes /= <<>>
    /\ kv_writes /= <<>> => (written /= <<>> /\ conversion = <<0, TRUE>>)
    /\ written /= <<>> => conversion = <<0, TRUE>>
    /\ pc = "failed" => (dataset = <<>> /\ Len(stages) >= 1)

C10_Witness ==
    /\ pc = "done"
    /\ stages = StageOrder
    /\ soffice_runs = 1

====
